---- MODULE Spec2Model ----
(***************************************************************************)
(* Model of chatbot.py: the SQLite store (topics, references_table), the   *)
(* two module globals inverted_index / faq_metadata built by               *)
(* load_faqs_from_db, the /chat query handler and the mutation handlers    *)
(* add_faq, edit_topic and add_topic.                                      *)
(*                                                                         *)
(* A text is a sequence of raw words; tokenize_and_lemmatize maps it word  *)
(* by word (normalize, then the lemma of the language model).  A score is  *)
(* the exact fraction <<intersection, union>>.                             *)
(***************************************************************************)
EXTENDS Integers, Sequences, FiniteSets, TLC

VARIABLES topics, references_table, inverted_index, faq_metadata, req, db_lock

vars == <<topics, references_table, inverted_index, faq_metadata, req, db_lock>>

----------------------------------------------------------------------------
(* Bounds of the model *)

\* number of requests the server handles concurrently (threaded server)
NumRequests == 2
\* rows of references_table in a start-up database of SpecQuery
MaxRows == 2

Requests == 1..NumRequests

----------------------------------------------------------------------------
(* Values *)

\* Python's None, and a key absent from the request body / form
None == "<None>"
Missing == "<missing>"

TopicNames == {"", "t1", "t2"}

\* the answer a start-up database of SpecQuery stores for a topic
SeedAnswer(name) == IF name = "" THEN "ans0" ELSE IF name = "t1" THEN "ans1" ELSE "ans2"

\* reference questions of the start-up databases
RefTexts == { <<>>, <<"A", "b", "a">>, <<"a", "b", "c", "ds">> }

\* prompts sent to /chat
Prompts == { <<>>, <<"a", "b">>, <<"a", "b", "c", "e">>, <<"e">>, <<"A", "b", "c">> }

RawWords == {"a", "A", "b", "c", "d", "ds", "e"}

\* line 175: the fixed reply of a query that matched nothing
NotUnderstood == "Δεν καταλαβαίνω την ερώτηση. Παρακαλώ δοκιμάστε ξανά με διαφορετική διατύπωση."

\* line 166: threshold = 0.6 (use_jaccard is True), as the fraction 3/5
ThresholdNum == 3
ThresholdDen == 5

----------------------------------------------------------------------------
(* Helpers on sequences and sets *)

Range(s) == {s[i] : i \in 1..Len(s)}

RECURSIVE SeqOfSet(_)
SeqOfSet(S) == IF S = {} THEN <<>>
               ELSE LET x == CHOOSE y \in S : TRUE
                    IN <<x>> \o SeqOfSet(S \ {x})

\* all orders in which the elements of S can be iterated
RECURSIVE Orders(_)
Orders(S) == IF S = {} THEN {<<>>}
             ELSE UNION { {<<x>> \o o : o \in Orders(S \ {x})} : x \in S }

----------------------------------------------------------------------------
(* Text processing: lines 113-131 *)

\* normalize: lower-case and strip the combining marks (word by word)
normalize(w) == IF w = "A" THEN "a" ELSE w

\* token.lemma_ of the language model: the base form of a normalized word
lemma_(w) == IF w = "ds" THEN "d" ELSE w

tokenize_and_lemmatize(text) == [i \in 1..Len(text) |-> lemma_(normalize(text[i]))]

Lemmas == {lemma_(normalize(w)) : w \in RawWords}

\* ' '.join(lemm_tokens)
RECURSIVE Join(_)
Join(tokens) == IF tokens = <<>> THEN ""
                ELSE IF Len(tokens) = 1 THEN tokens[1]
                ELSE tokens[1] \o " " \o Join(Tail(tokens))

jaccard_similarity(set1, set2) ==
    LET intersection == Cardinality(set1 \cap set2)
        union == Cardinality(set1 \cup set2)
    IN IF union # 0 THEN <<intersection, union>> ELSE <<0, 1>>

\* comparison of two scores (fractions with positive denominators)
Greater(s, t) == s[1] * t[2] > t[1] * s[2]
AtLeast(s, t) == s[1] * t[2] >= t[1] * s[2]

\* round(best_score, 3), in thousandths
Round3(s) == (2000 * s[1] + s[2]) \div (2 * s[2])

----------------------------------------------------------------------------
(* load_faqs_from_db: lines 70-106 *)

\* lines 79-81: the topics in the order the SELECT returns them (by rowid)
RECURSIVE TopicOrder(_)
TopicOrder(tps) ==
    IF tps = {} THEN <<>>
    ELSE LET first == CHOOSE t \in tps : \A u \in tps : t.id <= u.id
         IN <<first>> \o TopicOrder(tps \ {first})

\* lines 84-89: the references of a topic, in row order
ReferencesOf(topic, refs) ==
    LET rows == SelectSeq(refs, LAMBDA row : row.topic_id = topic.id)
    IN [i \in 1..Len(rows) |-> rows[i].reference_question]

\* line 88: fetchone() is None for a row whose topic_id names no topic
Orphans(tps, refs) ==
    {i \in 1..Len(refs) : \A t \in tps : t.id # refs[i].topic_id}

\* IndexedTokens with a fault: the bucket loop runs over the token list
IndexedTokens_NoDedup(lemm_tokens) == lemm_tokens

\* lines 96, 102: for token in lemm_set
IndexedTokens(lemm_tokens) == SeqOfSet(Range(lemm_tokens))

\* line 103: inverted_index[token].append((topic_name, idx)), token by token
RECURSIVE AppendId(_, _, _)
AppendId(index, tokens, id) ==
    IF tokens = <<>> THEN index
    ELSE AppendId([index EXCEPT ![tokens[1]] = Append(@, id)], Tail(tokens), id)

\* lines 93-103: the references of one topic, idx = 0, 1, ...
RECURSIVE IndexReferences(_, _, _, _)
IndexReferences(acc, topic, refs, idx) ==
    IF refs = <<>> THEN acc
    ELSE LET lemm_tokens == tokenize_and_lemmatize(refs[1])
             id == <<topic.topic_name, idx>>
             entry == [joined |-> Join(lemm_tokens),
                       set    |-> Range(lemm_tokens),
                       answer |-> topic.answer]
         IN IndexReferences(
                [index    |-> AppendId(acc.index, IndexedTokens(lemm_tokens), id),
                 metadata |-> [k \in DOMAIN acc.metadata \cup {id} |->
                                  IF k = id THEN entry ELSE acc.metadata[k]]],
                topic, Tail(refs), idx + 1)

\* line 92: for topic_name in faqs
RECURSIVE IndexTopics(_, _, _)
IndexTopics(acc, order, refs) ==
    IF order = <<>> THEN acc
    ELSE IndexTopics(IndexReferences(acc, order[1], ReferencesOf(order[1], refs), 0),
                     Tail(order), refs)

EmptyMetadata == [k \in {} |-> None]

load_faqs_from_db(tps, refs) ==
    IF Orphans(tps, refs) # {}
    THEN [raised |-> TRUE, index |-> <<>>, metadata |-> <<>>]
    ELSE LET built == IndexTopics([index |-> [l \in Lemmas |-> <<>>],
                                   metadata |-> EmptyMetadata],
                                  TopicOrder(tps), refs)
             \* a defaultdict holds the keys that were appended to
             keys == {l \in Lemmas : built.index[l] # <<>>}
         IN [raised |-> FALSE, index |-> [l \in keys |-> built.index[l]],
             metadata |-> built.metadata]

----------------------------------------------------------------------------
(* The start-up state: init_db (lines 20-45), then line 110 *)

TopicId(name) == IF name = "" THEN 1 ELSE IF name = "t1" THEN 2 ELSE 3

TopicRows(answers) ==
    {[id |-> TopicId(n), topic_name |-> n, answer |-> answers[n]] : n \in DOMAIN answers}

RECURSIVE ReferenceRows(_, _)
ReferenceRows(names, lists) ==
    IF names = <<>> THEN <<>>
    ELSE [i \in 1..Len(lists[names[1]]) |->
             [topic_id |-> TopicId(names[1]), reference_question |-> lists[names[1]][i]]]
         \o ReferenceRows(Tail(names), lists)

RECURSIVE TotalLen(_, _)
TotalLen(names, lists) ==
    IF names = <<>> THEN 0 ELSE Len(lists[names[1]]) + TotalLen(Tail(names), lists)

RefLists == UNION {[1..n -> RefTexts] : n \in 0..MaxRows}

Idle == [kind |-> "none", pc |-> "idle", topic |-> None, answer |-> None,
         references |-> <<>>, lemm_tokens |-> <<>>, prompt_set |-> {},
         candidate_refs |-> {}, todo |-> {},
         best_topic |-> None, best_idx |-> -1, best_score |-> <<0, 1>>,
         status |-> 0, reply |-> None, probability |-> 0, txn |-> {}]

Started(tps, refs) ==
    /\ topics = tps
    /\ references_table = refs
    /\ LET loaded == load_faqs_from_db(tps, refs)
       IN /\ ~loaded.raised
          /\ inverted_index = loaded.index
          /\ faq_metadata = loaded.metadata
    /\ req = [r \in Requests |-> Idle]
    /\ db_lock = 0

\* faqs.db outlives the process, so the server starts on whatever the file
\* holds: any database of the schema with at most MaxRows reference rows, every
\* row of a stored topic (line 110 raises on any other and the server does not
\* start).  topic_name and reference_question are NOT NULL, the empty string
\* is allowed
InitQuery ==
    \E present \in SUBSET TopicNames :
      \E lists \in [present -> RefLists] :
        /\ TotalLen(SeqOfSet(present), lists) <= MaxRows
        /\ Started(TopicRows([n \in present |-> SeedAnswer(n)]),
                   ReferenceRows(SeqOfSet(present), lists))

----------------------------------------------------------------------------
(* chat: lines 134-178 *)

\* CandidateRefs with a fault: the buckets are intersected instead of united
CandidateRefs_Intersect(prompt_set, index) ==
    {id \in UNION {Range(index[token]) : token \in prompt_set \cap DOMAIN index} :
        \A token \in prompt_set : token \in DOMAIN index /\ id \in Range(index[token])}

\* lines 146-148: the union of the buckets of the prompt's lemmas
CandidateRefs(prompt_set, index) ==
    UNION {Range(index[token]) : token \in prompt_set \cap DOMAIN index}

\* lines 136-138
chat_no_message(r) ==
    /\ req[r].pc = "idle"
    /\ req' = [req EXCEPT ![r] = [Idle EXCEPT !.kind = "chat", !.pc = "responded",
                                              !.status = 400]]
    /\ UNCHANGED <<topics, references_table, inverted_index, faq_metadata, db_lock>>

\* lines 140-153
chat_narrow(r, prompt) ==
    /\ req[r].pc = "idle"
    /\ LET lemm_tokens == tokenize_and_lemmatize(prompt)
           prompt_set == Range(lemm_tokens)
           candidate_refs == CandidateRefs(prompt_set, inverted_index)
       IN req' = [req EXCEPT ![r] = [Idle EXCEPT !.kind = "chat", !.pc = "scoring",
                                                 !.lemm_tokens = lemm_tokens,
                                                 !.prompt_set = prompt_set,
                                                 !.candidate_refs = candidate_refs,
                                                 !.todo = candidate_refs]]
    /\ UNCHANGED <<topics, references_table, inverted_index, faq_metadata, db_lock>>

\* lines 155-164, one iteration of the loop over candidate_refs
ScoreStep(best, c, prompt_set, metadata) ==
    LET ref == metadata[c]
        score == jaccard_similarity(prompt_set, ref.set)
    IN IF Greater(score, best.best_score)
       THEN [best_topic |-> c[1], best_idx |-> c[2], best_score |-> score]
       ELSE best

\* lines 150-152
NoBest == [best_topic |-> None, best_idx |-> -1, best_score |-> <<0, 1>>]

\* lines 155-164, one iteration; a set is iterated in no specified order
chat_score(r) ==
    /\ req[r].pc = "scoring"
    /\ \E c \in req[r].todo :
         LET q == req[r]
             best == ScoreStep([best_topic |-> q.best_topic, best_idx |-> q.best_idx,
                                best_score |-> q.best_score],
                               c, q.prompt_set, faq_metadata)
         IN req' = [req EXCEPT ![r] =
                      [q EXCEPT !.todo = q.todo \ {c},
                                !.best_topic = best.best_topic,
                                !.best_idx = best.best_idx,
                                !.best_score = best.best_score]]
    /\ UNCHANGED <<topics, references_table, inverted_index, faq_metadata, db_lock>>

\* the truth value Python gives best_topic: None and '' are false
Truthy(x) == x # None /\ x # ""

\* lines 166-178: the reply and the probability of the response
Reply(best, metadata) ==
    IF AtLeast(best.best_score, <<ThresholdNum, ThresholdDen>>) /\ Truthy(best.best_topic)
    THEN [reply |-> metadata[<<best.best_topic, best.best_idx>>].answer,
          probability |-> Round3(best.best_score)]
    ELSE [reply |-> NotUnderstood, probability |-> 0]

\* lines 166-178
chat_reply(r) ==
    /\ req[r].pc = "scoring"
    /\ req[r].todo = {}
    /\ LET q == req[r]
           out == Reply([best_topic |-> q.best_topic, best_idx |-> q.best_idx,
                         best_score |-> q.best_score], faq_metadata)
       IN req' = [req EXCEPT ![r] = [q EXCEPT !.pc = "responded", !.status = 200,
                                              !.reply = out.reply,
                                              !.probability = out.probability]]
    /\ UNCHANGED <<topics, references_table, inverted_index, faq_metadata, db_lock>>

\* the response has been sent and the request's frame is released; a connection
\* it left open is closed, which rolls its transaction back
finish(r) ==
    /\ req[r].pc = "responded"
    /\ req' = [req EXCEPT ![r] = Idle]
    /\ db_lock' = IF db_lock = r THEN 0 ELSE db_lock
    /\ UNCHANGED <<topics, references_table, inverted_index, faq_metadata>>

----------------------------------------------------------------------------
(* add_or_update_topic: lines 48-67 *)

MutationKinds == {"add_faq", "edit_topic", "add_topic"}

\* what the mutation requests of Spec send
NewAnswer == "new"
NewReferences == << <<"c">>, <<>> >>

\* lines 53-56: INSERT OR REPLACE deletes the row of the same topic_name and
\* inserts a row with a fresh AUTOINCREMENT id
InsertOrReplace(tps, topic_name, answer) ==
    LET kept == {t \in tps : t.topic_name # topic_name}
        ids == {t.id : t \in tps}
        fresh == IF ids = {} THEN 1 ELSE (CHOOSE i \in ids : \A j \in ids : i >= j) + 1
    IN kept \cup {[id |-> fresh, topic_name |-> topic_name, answer |-> answer]}

\* add_or_update_topic_insert with a fault: the connection is in autocommit
\* mode, so the INSERT OR REPLACE is stored at once
add_or_update_topic_insert_autocommit(r) ==
    /\ req[r].pc = "store"
    /\ db_lock = 0
    /\ topics' = InsertOrReplace(topics, req[r].topic, req[r].answer)
    /\ req' = [req EXCEPT ![r].pc = "inserted", ![r].txn = topics']
    /\ db_lock' = r
    /\ UNCHANGED <<references_table, inverted_index, faq_metadata>>

\* lines 50-57: the INSERT OR REPLACE opens a transaction, which takes the
\* write lock of the database; txn is the topics table as the connection sees it
add_or_update_topic_insert(r) ==
    /\ req[r].pc = "store"
    /\ db_lock = 0
    /\ req' = [req EXCEPT ![r].pc = "inserted",
                          ![r].txn = InsertOrReplace(topics, req[r].topic, req[r].answer)]
    /\ db_lock' = r
    /\ UNCHANGED <<topics, references_table, inverted_index, faq_metadata>>

\* lines 53-56 while another connection holds the write lock: the busy timeout
\* ends and execute raises OperationalError (database is locked)
add_or_update_topic_locked(r) ==
    /\ req[r].pc = "store"
    /\ db_lock # 0
    /\ req' = [req EXCEPT ![r].pc = "responded", ![r].status = 500]
    /\ UNCHANGED <<topics, references_table, inverted_index, faq_metadata, db_lock>>

\* add_or_update_topic_delete with a fault: the error is caught and an empty
\* pair is published
add_or_update_topic_delete_fail_open(r) ==
    /\ req[r].pc = "inserted"
    /\ req' = [req EXCEPT ![r].pc = "responded", ![r].status = 500]
    /\ inverted_index' = [l \in {} |-> <<>>]
    /\ faq_metadata' = EmptyMetadata
    /\ UNCHANGED <<topics, references_table, db_lock>>

\* line 59: DELETE FROM references names no table (the table is references_table,
\* and references is a reserved word): execute raises OperationalError.  Lines
\* 61-67 and the reload and publication of the caller are never reached; the
\* transaction stays open until the connection is closed
add_or_update_topic_delete(r) ==
    /\ req[r].pc = "inserted"
    /\ req' = [req EXCEPT ![r].pc = "responded", ![r].status = 500]
    /\ UNCHANGED <<topics, references_table, inverted_index, faq_metadata, db_lock>>

----------------------------------------------------------------------------
(* The mutation handlers, up to their call of add_or_update_topic *)

\* lines 181-191: the body lacks a required field, here answer (400), or the
\* store step starts; the fields are not looked at before they are stored
add_faq(r, topic, answer, references) ==
    /\ req[r].pc = "idle"
    /\ req' = [req EXCEPT ![r] =
                 IF answer = Missing
                 THEN [Idle EXCEPT !.kind = "add_faq", !.pc = "responded", !.status = 400,
                                   !.topic = topic, !.answer = answer]
                 ELSE [Idle EXCEPT !.kind = "add_faq", !.pc = "store", !.topic = topic,
                                   !.answer = answer, !.references = references]]
    /\ UNCHANGED <<topics, references_table, inverted_index, faq_metadata, db_lock>>

\* lines 218-219, 252-253: the lines of the form field, stripped, blank ones dropped
FormReferences(references) == SelectSeq(references, LAMBDA ref : ref # <<>>)

\* lines 212-221, POST: form['answer'] of a form without answer is a 400
edit_topic_post(r, topic_name, answer, references) ==
    /\ req[r].pc = "idle"
    /\ req' = [req EXCEPT ![r] =
                 IF answer = Missing
                 THEN [Idle EXCEPT !.kind = "edit_topic", !.pc = "responded", !.status = 400,
                                   !.topic = topic_name, !.answer = answer]
                 ELSE [Idle EXCEPT !.kind = "edit_topic", !.pc = "store",
                                   !.topic = topic_name, !.answer = answer,
                                   !.references = FormReferences(references)]]
    /\ UNCHANGED <<topics, references_table, inverted_index, faq_metadata, db_lock>>

\* lines 212-244, GET: 404 for a topic that is not stored; for a stored one the
\* SELECT of line 236 names the table references and raises
edit_topic_get(r, topic_name) ==
    /\ req[r].pc = "idle"
    /\ req' = [req EXCEPT ![r] =
                 [Idle EXCEPT !.kind = "edit_get", !.pc = "responded", !.topic = topic_name,
                              !.status = IF \E t \in topics : t.topic_name = topic_name
                                         THEN 500 ELSE 404]]
    /\ UNCHANGED <<topics, references_table, inverted_index, faq_metadata, db_lock>>

\* lines 247-255, POST
add_topic_post(r, topic_name, answer, references) ==
    /\ req[r].pc = "idle"
    /\ req' = [req EXCEPT ![r] =
                 IF answer = Missing
                 THEN [Idle EXCEPT !.kind = "add_topic", !.pc = "responded", !.status = 400,
                                   !.topic = topic_name, !.answer = answer]
                 ELSE [Idle EXCEPT !.kind = "add_topic", !.pc = "store",
                                   !.topic = topic_name, !.answer = answer,
                                   !.references = FormReferences(references)]]
    /\ UNCHANGED <<topics, references_table, inverted_index, faq_metadata, db_lock>>

----------------------------------------------------------------------------
(* The server: concurrent requests over a small start-up database *)

ServerPrompts == { <<"a", "b">>, <<"c">> }

\* line 212: the rule /edit/<topic_name> matches a non-empty path segment
RoutableNames == TopicNames \ {""}

\* topic t1 with one reference, with or without a topic of the empty name
Init ==
    \E present \in {{"t1"}, {"", "t1"}} :
        Started(TopicRows([n \in present |-> SeedAnswer(n)]),
                ReferenceRows(SeqOfSet(present), [n \in present |-> << <<"a", "b">> >>]))

Next ==
    \E r \in Requests :
        \/ chat_no_message(r)
        \/ \E prompt \in ServerPrompts : chat_narrow(r, prompt)
        \/ chat_score(r)
        \/ chat_reply(r)
        \/ \E topic \in TopicNames, answer \in {Missing, NewAnswer} :
              \/ add_faq(r, topic, answer, NewReferences)
              \/ add_topic_post(r, topic, answer, NewReferences)
        \/ \E topic \in RoutableNames, answer \in {Missing, NewAnswer} :
              edit_topic_post(r, topic, answer, NewReferences)
        \/ \E topic \in RoutableNames : edit_topic_get(r, topic)
        \/ add_or_update_topic_insert(r)
        \/ add_or_update_topic_locked(r)
        \/ add_or_update_topic_delete(r)
        \/ finish(r)

Spec == Init /\ [][Next]_vars

----------------------------------------------------------------------------
(* Queries alone, over every start-up database *)

NextQuery ==
    \/ chat_no_message(1)
    \/ \E prompt \in Prompts : chat_narrow(1, prompt)
    \/ chat_score(1)
    \/ chat_reply(1)
    \/ finish(1)

SpecQuery == InitQuery /\ [][NextQuery]_vars

----------------------------------------------------------------------------
(* Properties *)

ChatDone(r) == req[r].kind = "chat" /\ req[r].pc = "responded" /\ req[r].status = 200

ScoreOf(r, k) == jaccard_similarity(req[r].prompt_set, faq_metadata[k].set)

\* lines 150-164 over the candidates in the order given
RECURSIVE Scan(_, _, _, _)
Scan(best, order, prompt_set, metadata) ==
    IF order = <<>> THEN best
    ELSE Scan(ScoreStep(best, order[1], prompt_set, metadata), Tail(order),
              prompt_set, metadata)

IndexedIds == UNION {Range(inverted_index[l]) : l \in DOMAIN inverted_index}

Occurrences(bucket, id) == Cardinality({i \in 1..Len(bucket) : bucket[i] = id})

\* an identifier is in the bucket of l exactly when l is in its lemma set, once
BucketsMatchSets ==
    \A l \in Lemmas, k \in DOMAIN faq_metadata :
        LET bucket == IF l \in DOMAIN inverted_index THEN inverted_index[l] ELSE <<>>
        IN /\ (l \in faq_metadata[k].set) <=> (k \in Range(bucket))
           /\ Occurrences(bucket, k) <= 1

MutationInProgress(r) == req[r].kind \in MutationKinds /\ req[r].pc \in {"store", "inserted"}

MutationFailed(r) ==
    req[r].kind \in MutationKinds /\ req[r].pc = "responded" /\ req[r].status = 500

Stored(topic_name) == \E t \in topics : t.topic_name = topic_name

\* C2 (as claimed): once an upsert of a stored topic T (of a non-empty name)
\* with newRefs has been served, the published metadata holds for T exactly the
\* identifiers (T, 0..len(newRefs)-1), each with the lemma set of its new
\* reference and the new answer.
C2_UpsertReplacesReferences ==
    \A r \in Requests :
        (/\ req[r].kind \in MutationKinds
         /\ req[r].pc = "responded"
         /\ req[r].answer # Missing
         /\ req[r].topic # ""
         /\ Stored(req[r].topic))
        => LET T == req[r].topic
               newRefs == req[r].references
           IN /\ {k \in DOMAIN faq_metadata : k[1] = T}
                    = {<<T, i>> : i \in 0..(Len(newRefs) - 1)}
              /\ \A i \in 0..(Len(newRefs) - 1) :
                    /\ <<T, i>> \in DOMAIN faq_metadata
                    /\ faq_metadata[<<T, i>>].set = Range(tokenize_and_lemmatize(newRefs[i + 1]))
                    /\ faq_metadata[<<T, i>>].answer = req[r].answer

\* C3 (as claimed): a served query whose best candidate score is >= 0.6 replies
\* with the answer of a candidate of that best score and returns that score
\* (rounded to 3 decimals); any other served query replies with the fixed
\* not-understood text and score 0.0; whatever the names of the topics.
C3_AcceptanceRule ==
    \A r \in Requests :
        ChatDone(r) =>
            LET cands == req[r].candidate_refs
                Top(k) == \A j \in cands : AtLeast(ScoreOf(r, k), ScoreOf(r, j))
            IN IF \E k \in cands : AtLeast(ScoreOf(r, k), <<ThresholdNum, ThresholdDen>>)
               THEN \E k \in cands : /\ Top(k)
                                     /\ req[r].reply = faq_metadata[k].answer
                                     /\ req[r].probability = Round3(ScoreOf(r, k))
               ELSE req[r].reply = NotUnderstood /\ req[r].probability = 0

\* the outcomes of lines 150-178 when every entry of the metadata table is scored
FullScanOutcomes(r) ==
    {LET best == Scan(NoBest, order, req[r].prompt_set, faq_metadata)
     IN [best |-> best, out |-> Reply(best, faq_metadata)] :
        order \in Orders(DOMAIN faq_metadata)}

\* C4: every reference that scores > 0 against the prompt is among the
\* candidates gathered from the buckets, and the best score, the best candidate
\* and the reply of a served query are those of a scan of the whole metadata table.
C4_NarrowingPreservesResult ==
    \A r \in Requests :
        /\ (req[r].kind = "chat" /\ req[r].pc = "scoring") =>
              \A k \in DOMAIN faq_metadata :
                  Greater(ScoreOf(r, k), <<0, 1>>) => k \in req[r].candidate_refs
        /\ ChatDone(r) =>
              /\ \A k \in DOMAIN faq_metadata :
                    AtLeast(req[r].best_score, ScoreOf(r, k))
              /\ [best |-> [best_topic |-> req[r].best_topic, best_idx |-> req[r].best_idx,
                            best_score |-> req[r].best_score],
                  out |-> [reply |-> req[r].reply, probability |-> req[r].probability]]
                    \in FullScanOutcomes(r)

\* C4 witness: a served query that was answered from the index although the
\* narrowing left a reference of the metadata table out.
C4_Witness ==
    \E r \in Requests :
        /\ ChatDone(r)
        /\ req[r].reply # NotUnderstood
        /\ req[r].candidate_refs # {}
        /\ DOMAIN faq_metadata \ req[r].candidate_refs # {}

C6_FailSafe ==
    [][(\E r \in Requests : ~MutationFailed(r) /\ MutationFailed(r)')
          => (inverted_index' = inverted_index /\ faq_metadata' = faq_metadata)]_vars

\* C6 witness: the store step of a request failed after its INSERT OR REPLACE,
\* and a query is answered from the published pair.
C6_Witness ==
    \E r1, r2 \in Requests :
        /\ MutationFailed(r1) /\ req[r1].txn # {}
        /\ ChatDone(r2) /\ req[r2].reply # NotUnderstood

C8_UnknownTopicNotFound ==
    \A r \in Requests :
        (req[r].kind \in {"edit_get", "edit_topic"}
            /\ req[r].pc = "responded"
            /\ req[r].answer # Missing
            /\ ~Stored(req[r].topic))
        => req[r].status = 404

\* C9 (as claimed): the reply of a served query does not depend on the order in
\* which the candidate set is iterated: every order of the candidates gives the
\* reply that was returned.  Stated for the pairs without a topic of the empty
\* name, where the order alone decides.
C9_ReplyIndependentOfOrder ==
    \A r \in Requests :
        (ChatDone(r) /\ ~Stored("")) =>
            \A order \in Orders(req[r].candidate_refs) :
                Reply(Scan(NoBest, order, req[r].prompt_set, faq_metadata),
                      faq_metadata).reply = req[r].reply

\* C10 (as claimed): the identifiers occurring in the inverted index are exactly
\* the keys of the metadata table, and an identifier is in the bucket of a lemma
\* exactly when the lemma is in its lemma set, at most once.
C10_IndexMetadataCorrespondence ==
    /\ IndexedIds = DOMAIN faq_metadata
    /\ BucketsMatchSets

\* C10 (amended): the identifiers occurring in the inverted index are exactly
\* the keys of the metadata table whose lemma set is not empty, and an
\* identifier is in the bucket of a lemma exactly when the lemma is in its lemma
\* set, at most once.
C10_IndexCoversNonEmptySets ==
    /\ IndexedIds = {k \in DOMAIN faq_metadata : faq_metadata[k].set # {}}
    /\ BucketsMatchSets

\* C10 witness: a pair built from a reference without lemmas and a reference
\* that repeats a lemma.
C10_Witness ==
    /\ \E k \in DOMAIN faq_metadata : faq_metadata[k].set = {}
    /\ \E k \in DOMAIN faq_metadata : faq_metadata[k].joined = "a b a"

====
